---- MODULE Spec2Model ----
(***************************************************************************)
(* PrometheusMetricFindQuery (template-variable query resolver).           *)
(*                                                                         *)
(* One instance holds a query string and the shared field this.range.      *)
(* process(timeRange) classifies the query with an ordered list of         *)
(* regular expressions, issues at most one collaborator call and decodes   *)
(* the response in a promise callback.  Strings are TLA+ strings; the      *)
(* regular expressions are evaluated character by character.               *)
(***************************************************************************)
EXTENDS Integers, Sequences, FiniteSets, TLC

VARIABLES
    query,      \* this.query, set by the constructor
    range,      \* this.range, overwritten by every process call
    limit,      \* number of process calls the caller makes in this behaviour
    started,    \* number of process calls made so far
    pc,         \* per call: "idle", "pending", "resolved", "rejected"
    timeRange,  \* per call: the timeRange argument of process
    dispatched, \* per call: the handler invocations process made, in order
    response,   \* per call: the payload its callback was handed
    failure,    \* per call: the reason the collaborator's promise rejected with
    result,     \* per call: the value the returned promise resolved to
    error,      \* per call: the reason the returned promise rejected with
    backend,    \* the payload object held for this query's endpoint, once fetched
    hasLabelsMatchAPISupport  \* the datasource's capability flag

vars == <<query, range, limit, started, pc, timeRange, dispatched,
          response, failure, result, error, backend, hasLabelsMatchAPISupport>>

----------------------------------------------------------------------------
(* Bounds *)

MaxCalls == 2
MaxArgLen == 2
MaxData == 2
MaxSeries == 3

Calls == 1..MaxCalls

----------------------------------------------------------------------------
(* Strings *)

At(s, i) == SubSeq(s, i, i)

Lower == {"a","b","c","d","e","f","g","h","i","j","k","l","m",
          "n","o","p","q","r","s","t","u","v","w","x","y","z"}
Upper == {"A","B","C","D","E","F","G","H","I","J","K","L","M",
          "N","O","P","Q","R","S","T","U","V","W","X","Y","Z"}
Digit == {"0","1","2","3","4","5","6","7","8","9"}

\* \s
IsSpace(c) == c \in {" ", "\t", "\n", "\r"}
\* .  (no line terminators)
IsDot(c) == c \notin {"\n", "\r"}
\* [a-zA-Z_]
IsIdentStart(c) == c \in Lower \cup Upper \cup {"_"}
\* [a-zA-Z0-9_]
IsIdentChar(c) == c \in Lower \cup Upper \cup Digit \cup {"_"}

AllDot(s) == \A i \in 1..Len(s) : IsDot(At(s, i))
AllIdentChars(s) == \A i \in 1..Len(s) : IsIdentChar(At(s, i))

StartsWith(s, p) == Len(s) >= Len(p) /\ SubSeq(s, 1, Len(p)) = p

\* the string without its trailing \s*
RECURSIVE TrimEnd(_)
TrimEnd(s) ==
    IF Len(s) > 0 /\ IsSpace(At(s, Len(s)))
    THEN TrimEnd(SubSeq(s, 1, Len(s) - 1))
    ELSE s

\* ^name\(  ...  \)\s*$ : whether s has that frame, and the text inside it
CallFrame(s, name) ==
    LET open == name \o "("
        t == TrimEnd(s)
    IN  IF StartsWith(t, open) /\ Len(t) > Len(open) /\ At(t, Len(t)) = ")"
        THEN [ok |-> TRUE, inner |-> SubSeq(t, Len(open) + 1, Len(t) - 1)]
        ELSE [ok |-> FALSE, inner |-> ""]

\* (.+) : a non-empty run of characters other than line terminators
IsDotPlus(s) == Len(s) > 0 /\ AllDot(s)

NoMatch == [ok |-> FALSE]

----------------------------------------------------------------------------
(* The classifier's regular expressions *)

\* /^label_names\(\)\s*$/
PrometheusLabelNamesRegex(q) ==
    LET f == CallFrame(q, "label_names")
    IN  IF f.ok /\ f.inner = "" THEN [ok |-> TRUE] ELSE NoMatch

\* /^label_names\((.+)\)\s*$/
PrometheusLabelNamesRegexWithMatch(q) ==
    LET f == CallFrame(q, "label_names")
    IN  IF f.ok /\ IsDotPlus(f.inner) THEN [ok |-> TRUE, g1 |-> f.inner] ELSE NoMatch

\* /^metrics\((.+)\)\s*$/
PrometheusMetricNamesRegex(q) ==
    LET f == CallFrame(q, "metrics")
    IN  IF f.ok /\ IsDotPlus(f.inner) THEN [ok |-> TRUE, g1 |-> f.inner] ELSE NoMatch

\* /^query_result\((.+)\)\s*$/
PrometheusQueryResultRegex(q) ==
    LET f == CallFrame(q, "query_result")
    IN  IF f.ok /\ IsDotPlus(f.inner) THEN [ok |-> TRUE, g1 |-> f.inner] ELSE NoMatch

\* ([a-zA-Z_][a-zA-Z0-9_]*)
IsIdentifier(s) == Len(s) > 0 /\ IsIdentStart(At(s, 1)) /\ AllIdentChars(s)

\* (.+),\s*  : the text before the label; g1 is the greedy (.+)
MetricPrefix(s) ==
    LET t == TrimEnd(s)
    IN  IF Len(t) > 1 /\ At(t, Len(t)) = "," /\ IsDotPlus(SubSeq(t, 1, Len(t) - 1))
        THEN [ok |-> TRUE, g1 |-> SubSeq(t, 1, Len(t) - 1)]
        ELSE NoMatch

\* /^label_values\((?:(.+),\s*)?([a-zA-Z_][a-zA-Z0-9_]*)\)\s*$/
\* g1 = "" stands for the group that did not take part (undefined)
labelValuesRegex(q) ==
    LET f == CallFrame(q, "label_values")
        n == Len(f.inner)
        \* the split points p: inner = prefix \o label with label an identifier
        Splits == {p \in 1..n :
                      /\ IsIdentifier(SubSeq(f.inner, p, n))
                      /\ (p = 1 \/ MetricPrefix(SubSeq(f.inner, 1, p - 1)).ok)}
    IN  IF f.ok /\ Splits # {}
        THEN LET p == CHOOSE x \in Splits : \A y \in Splits : x >= y
             IN  [ok |-> TRUE,
                  g1 |-> IF p = 1 THEN "" ELSE MetricPrefix(SubSeq(f.inner, 1, p - 1)).g1,
                  g2 |-> SubSeq(f.inner, p, n)]
        ELSE NoMatch

----------------------------------------------------------------------------
(* Time window: instants are milliseconds since the epoch *)

\* getPrometheusTime(date, roundUp): whole seconds, floored or ceiled
getPrometheusTime(date, roundUp) ==
    IF roundUp THEN (date + 999) \div 1000 ELSE date \div 1000

\* Number.prototype.toString of a whole number
toString(n) == ToString(n)

\* getDefaultTimeRange()
getDefaultTimeRange == [from |-> 1000, to |-> 7000]

----------------------------------------------------------------------------
(* Request dispatch.  A params object is the sequence of its <<key, value>> *)
(* pairs in insertion order.  A dispatch is one handler invocation: the     *)
(* collaborator call it issues and the decoder its .then callback applies.  *)

\* variant: both ends rounded up
TimeParamsRoundUp(thisRange) ==
    << <<"start", toString(getPrometheusTime(thisRange.from, TRUE))>>,
       <<"end", toString(getPrometheusTime(thisRange.to, TRUE))>> >>

\* const start = ...; const end = ...; { start: start.toString(), end: end.toString() }
TimeParams(thisRange) ==
    << <<"start", toString(getPrometheusTime(thisRange.from, FALSE))>>,
       <<"end", toString(getPrometheusTime(thisRange.to, TRUE))>> >>

HasParam(params, k) == \E i \in 1..Len(params) : params[i][1] = k
Param(params, k) == params[CHOOSE i \in 1..Len(params) : params[i][1] = k][2]

\* this.datasource.metadataRequest(url, params): the call, as issued
metadataRequest(url, params) == [fn |-> "metadataRequest", url |-> url, params |-> params]

\* variant: the label API is chosen on the capability flag alone
labelValuesQueryFlagOnly(label, metric, thisRange, support) ==
    LET params == (IF metric # "" THEN << <<"match[]", metric>> >> ELSE << >>)
                      \o TimeParams(thisRange)
    IN  IF support
        THEN [handler |-> "labelValuesQuery",
              request |-> metadataRequest("/api/v1/label/" \o label \o "/values", params),
              decoder |-> "labelValues", arg |-> label]
        ELSE [handler |-> "labelValuesQuery",
              request |-> metadataRequest("/api/v1/series", params),
              decoder |-> "seriesLabelValues", arg |-> label]

\* labelValuesQuery(label, metric?): metric = "" stands for undefined
labelValuesQuery(label, metric, thisRange, support) ==
    LET params == (IF metric # "" THEN << <<"match[]", metric>> >> ELSE << >>)
                      \o TimeParams(thisRange)
    IN  IF metric = "" \/ support
        THEN [handler |-> "labelValuesQuery",
              request |-> metadataRequest("/api/v1/label/" \o label \o "/values", params),
              decoder |-> "labelValues", arg |-> label]
        ELSE [handler |-> "labelValuesQuery",
              request |-> metadataRequest("/api/v1/series", params),
              decoder |-> "seriesLabelValues", arg |-> label]

metricNameQuery(metricFilterPattern, thisRange) ==
    [handler |-> "metricNameQuery",
     request |-> metadataRequest("/api/v1/label/__name__/values", TimeParams(thisRange)),
     decoder |-> "metricNames", arg |-> metricFilterPattern]

queryResultQuery(q) ==
    [handler |-> "queryResultQuery",
     request |-> metadataRequest("/api/v1/query", << <<"query", q>> >>),
     decoder |-> "queryResult", arg |-> q]

metricNameAndLabelsQuery(q, thisRange) ==
    [handler |-> "metricNameAndLabelsQuery",
     request |-> metadataRequest("/api/v1/series",
                                 << <<"match[]", q>> >> \o TimeParams(thisRange)),
     decoder |-> "originalMetricNames", arg |-> q]

\* this.datasource.languageProvider.getSeriesLabels(selector, [])
labelNamesMatchDispatch(g1) ==
    [handler |-> "getSeriesLabels",
     request |-> [fn |-> "getSeriesLabels",
                  url |-> "{__name__=~\".*" \o g1 \o ".*\"}",   \* the selector
                  params |-> << >>],                              \* the extra labels
     decoder |-> "labelNames", arg |-> g1]

\* this.datasource.getTagKeys({ filters: [], timeRange })
labelNamesDispatch(tr) ==
    [handler |-> "getTagKeys",
     request |-> [fn |-> "getTagKeys",
                  url |-> "",
                  params |-> << <<"filters", "">>, <<"timeRange", tr>> >>],
     decoder |-> "identity", arg |-> ""]

\* variant: one reserved form missing from the list
expressionsShort == {"label_values()", "metrics()"}

\* const expressions = [...]
expressions == {"label_values()", "metrics()", "query_result()"}

\* the body of process after line 121: the rules in order, each returning
\* the promise of its handler; thisRange is what the handlers read as this.range
dispatch(q, tr, thisRange, support) ==
    LET labelNamesQuery == PrometheusLabelNamesRegex(q)
        labelNamesMatchQuery == PrometheusLabelNamesRegexWithMatch(q)
        labelValuesMatch == labelValuesRegex(q)
        metricNamesQuery == PrometheusMetricNamesRegex(q)
        queryResultMatch == PrometheusQueryResultRegex(q)
    IN  IF labelNamesMatchQuery.ok THEN
            << labelNamesMatchDispatch(labelNamesMatchQuery.g1) >>
        ELSE IF labelNamesQuery.ok THEN
            << labelNamesDispatch(tr) >>
        ELSE IF labelValuesMatch.ok THEN
            << labelValuesQuery(labelValuesMatch.g2, labelValuesMatch.g1, thisRange, support) >>
        ELSE IF metricNamesQuery.ok THEN
            << metricNameQuery(metricNamesQuery.g1, thisRange) >>
        ELSE IF queryResultMatch.ok THEN
            << queryResultQuery(queryResultMatch.g1) >>
        ELSE IF q \notin expressions THEN
            << metricNameAndLabelsQuery(q, thisRange) >>
        ELSE << >>

\* variant: the label_names() branch does not return, so control reaches the
\* freeform rule as well
processNoReturn(q, tr, oldRange, support) ==
    IF PrometheusLabelNamesRegex(q).ok
    THEN dispatch(q, tr, tr, support) \o << metricNameAndLabelsQuery(q, tr) >>
    ELSE dispatch(q, tr, tr, support)

\* variant: this.range is not assigned before the handlers read it
processStaleRange(q, tr, oldRange, support) == dispatch(q, tr, oldRange, support)

\* process(timeRange): the dispatches made before it returns.  oldRange is
\* this.range on entry; line 121 overwrites it with timeRange first.
process(q, tr, oldRange, support) == dispatch(q, tr, tr, support)

----------------------------------------------------------------------------
(* JavaScript values.  An object is the sequence of its <<key, value>>      *)
(* pairs in insertion order; a missing property reads as undefined.         *)

HasKey(obj, k) == \E i \in 1..Len(obj) : obj[i][1] = k

\* obj[k] || ''  (property values are strings)
PropOrEmpty(obj, k) ==
    IF HasKey(obj, k) THEN obj[CHOOSE i \in 1..Len(obj) : obj[i][1] = k][2] ELSE ""

\* arr[i] || ''  (elements are strings; i counts from 1)
ElemOrEmpty(arr, i) == IF i <= Len(arr) THEN arr[i] ELSE ""

\* delete obj[k]
RECURSIVE Delete(_, _)
Delete(obj, k) ==
    IF obj = << >> THEN << >>
    ELSE IF Head(obj)[1] = k THEN Delete(Tail(obj), k)
    ELSE << Head(obj) >> \o Delete(Tail(obj), k)

Contains(xs, x) == \E i \in 1..Len(xs) : xs[i] = x

\* variant: duplicates are kept
uniqKeepsAll(xs) == xs

\* _.uniq(xs): the first occurrence of every value, in order
RECURSIVE uniq(_)
uniq(xs) ==
    IF xs = << >> THEN << >>
    ELSE LET init == SubSeq(xs, 1, Len(xs) - 1)
             last == xs[Len(xs)]
         IN  IF Contains(init, last) THEN uniq(init) ELSE uniq(init) \o << last >>

\* strs.join(sep)
RECURSIVE Join(_, _)
Join(strs, sep) ==
    IF strs = << >> THEN ""
    ELSE IF Len(strs) = 1 THEN strs[1]
    ELSE strs[1] \o sep \o Join(Tail(strs), sep)

----------------------------------------------------------------------------
(* new RegExp(pattern) and r.test(name), for patterns made of literal       *)
(* characters and group parentheses (the characters of PatternChars).       *)

\* the nesting depth after each prefix of the pattern; -1 once a ")" is unmatched
RECURSIVE Depth(_)
Depth(pattern) ==
    IF pattern = "" THEN 0
    ELSE LET d == Depth(SubSeq(pattern, 1, Len(pattern) - 1))
             c == At(pattern, Len(pattern))
         IN  IF d < 0 THEN -1
             ELSE IF c = "(" THEN d + 1
             ELSE IF c = ")" THEN d - 1
             ELSE d

\* new RegExp(pattern) throws SyntaxError on an unterminated group or unmatched ")"
RegExpThrows(pattern) == Depth(pattern) # 0

RECURSIVE Literal(_)
Literal(pattern) ==
    IF pattern = "" THEN ""
    ELSE LET c == At(pattern, 1)
         IN  (IF c \in {"(", ")"} THEN "" ELSE c) \o Literal(SubSeq(pattern, 2, Len(pattern)))

\* r.test(name): an unanchored match of the grouped literals
RegExpTest(pattern, name) ==
    LET lit == Literal(pattern)
    IN  \E i \in 1..(Len(name) - Len(lit) + 1) : SubSeq(name, i, i + Len(lit) - 1) = lit

----------------------------------------------------------------------------
(* Result decoding: the .then callbacks.  A decoder yields the value the    *)
(* promise settles with and the payload object as the callback leaves it.   *)

Resolved(items, payload) == [ok |-> TRUE, value |-> items, payload |-> payload]
Threw(err, payload) == [ok |-> FALSE, error |-> err, payload |-> payload]

\* labelValuesQuery, label API: _map(result.data.data, value => ({ text: value }))
DecodeLabelValues(payload) ==
    Resolved([i \in 1..Len(payload) |-> [text |-> payload[i]]], payload)

\* labelValuesQuery, series fallback
DecodeSeriesLabelValues(label, payload) ==
    LET mapped == [i \in 1..Len(payload) |-> PropOrEmpty(payload[i], label)]
        labels == SelectSeq(mapped, LAMBDA l : l # "")
        unique == uniq(labels)
    IN  Resolved([i \in 1..Len(unique) |-> [text |-> unique[i], expandable |-> TRUE]],
                 payload)

\* metricNameQuery: the filter callback builds the RegExp once per name
DecodeMetricNames(metricFilterPattern, payload) ==
    IF payload # << >> /\ RegExpThrows(metricFilterPattern)
    THEN Threw([name |-> "SyntaxError", message |-> metricFilterPattern], payload)
    ELSE LET matched == SelectSeq(payload, LAMBDA metricName :
                                               RegExpTest(metricFilterPattern, metricName))
         IN  Resolved([i \in 1..Len(matched) |-> [text |-> matched[i], expandable |-> TRUE]],
                      payload)

\* the text of one vector sample
VectorText(metricData) ==
    LET name == PropOrEmpty(metricData.metric, "__name__")
        rest == Delete(metricData.metric, "__name__")
        pairs == [i \in 1..Len(rest) |-> rest[i][1] \o "=\"" \o rest[i][2] \o "\""]
    IN  name \o "{" \o Join(pairs, ",") \o "}"
             \o " " \o metricData.value[2] \o " " \o toString(metricData.value[1] * 1000)

\* delete metricData.metric.__name__, as it leaves the payload object
StripName(metricData) ==
    [metricData EXCEPT !.metric = Delete(metricData.metric, "__name__")]

\* variant: an unhandled result type is coerced to the empty list
DecodeQueryResultLenient(payload) ==
    IF payload.resultType \in {"scalar", "string"} THEN
        Resolved(<< [text |-> ElemOrEmpty(payload.result, 2), expandable |-> FALSE] >>, payload)
    ELSE IF payload.resultType = "vector" THEN
        Resolved([i \in 1..Len(payload.result) |->
                     [text |-> VectorText(payload.result[i]), expandable |-> TRUE]],
                 [payload EXCEPT !.result =
                     [i \in 1..Len(payload.result) |-> StripName(payload.result[i])]])
    ELSE Resolved(<< >>, payload)

\* queryResultQuery: the .then callback
DecodeQueryResult(payload) ==
    IF payload.resultType \in {"scalar", "string"} THEN
        Resolved(<< [text |-> ElemOrEmpty(payload.result, 2), expandable |-> FALSE] >>, payload)
    ELSE IF payload.resultType = "vector" THEN
        Resolved([i \in 1..Len(payload.result) |->
                     [text |-> VectorText(payload.result[i]), expandable |-> TRUE]],
                 [payload EXCEPT !.result =
                     [i \in 1..Len(payload.result) |-> StripName(payload.result[i])]])
    ELSE
        Threw([name |-> "Error",
               message |-> "Unknown/Unhandled result type: [" \o payload.resultType \o "]"],
              payload)

\* self.datasource.getOriginalMetricName(metric)
getOriginalMetricName(metric) == [originalMetricNameOf |-> metric]

\* metricNameAndLabelsQuery
DecodeOriginalMetricNames(payload) ==
    Resolved([i \in 1..Len(payload) |->
                 [text |-> getOriginalMetricName(payload[i]), expandable |-> TRUE]],
             payload)

\* label_names(<expr>): results.map(result => ({ text: result }))
DecodeLabelNames(payload) ==
    Resolved([i \in 1..Len(payload) |-> [text |-> payload[i]]], payload)

\* the .then callback of a dispatch, applied to the payload it is handed
Decode(d, payload) ==
    CASE d.decoder = "labelValues"         -> DecodeLabelValues(payload)
      [] d.decoder = "seriesLabelValues"   -> DecodeSeriesLabelValues(d.arg, payload)
      [] d.decoder = "metricNames"         -> DecodeMetricNames(d.arg, payload)
      [] d.decoder = "queryResult"         -> DecodeQueryResult(payload)
      [] d.decoder = "originalMetricNames" -> DecodeOriginalMetricNames(payload)
      [] d.decoder = "labelNames"          -> DecodeLabelNames(payload)
      [] d.decoder = "identity"            -> Resolved(payload, payload)

----------------------------------------------------------------------------
(* Inputs *)

ArgChars == {"u", "1", ",", " ", "(", ")"}

RECURSIVE Strings(_)
Strings(n) ==
    IF n = 0 THEN {""}
    ELSE LET S == Strings(n - 1) IN S \cup {s \o c : s \in S, c \in ArgChars}

Keywords == {"label_names", "label_values", "metrics", "query_result"}

\* keyword(argument) with every short argument, closed, with or without a trailing blank
CallQueries ==
    {k \o "(" \o a \o ")" \o t : k \in Keywords, a \in Strings(MaxArgLen), t \in {"", " "}}

\* label_values(<metric>, <label>)
MetricLabelQueries ==
    {"label_values(" \o m \o sep \o l \o ")" :
        m \in {"up", "u,"}, sep \in {",", ", "}, l \in {"u", "u1"}}

\* text without a call frame
RawQueries == {"", "u", "up", "u(1)", "label_values(u", "metrics", "query_result)"}

Queries == CallQueries \cup MetricLabelQueries \cup RawQueries

\* the queries resolved several times over
SampleQueries ==
    {"label_names()", "label_names(u)", "label_values(u)",
     "metrics(u)", "query_result(up)", "up", "metrics()"}

TimeRanges == {[from |-> 10900, to |-> 11100], [from |-> 20000, to |-> 30000]}

NoError == [name |-> "", message |-> ""]
TransportErrors == {[name |-> "FetchError", message |-> "502 Bad Gateway"]}

RECURSIVE SeqsUpTo(_, _)
SeqsUpTo(S, n) ==
    IF n = 0 THEN {<< >>}
    ELSE LET T == SeqsUpTo(S, n - 1) IN T \cup {Append(t, x) : t \in T, x \in S}

Names == {"u1", "up"}

\* series objects: the label u absent, empty, or with a value
SeriesObjects == {<< >>, << <<"u", "a">> >>, << <<"u", "b">> >>, << <<"u", "">> >>}

Samples ==
    {[metric |-> << <<"__name__", "up">>, <<"instance", "a">> >>, value |-> <<1000, "1">>],
     [metric |-> << <<"instance", "b">> >>, value |-> <<2, "0">>]}

\* [ <unix_time>, "<value>" ], also with the value missing
ScalarPayloads ==
    {[resultType |-> t, result |-> r] : t \in {"scalar", "string"}, r \in {<<1000, "42">>, <<1000>>}}

\* a list of samples; the backend also reports types this code does not handle
SampleListPayloads ==
    {[resultType |-> "vector", result |-> r] : r \in SeqsUpTo(Samples, MaxData)}
    \cup {[resultType |-> t, result |-> << >>] : t \in {"matrix", "streams"}}

\* data.data of the label and name listings, and what getSeriesLabels resolves to
NameListPayloads == SeqsUpTo(Names, MaxData)

\* data.data of /api/v1/series, as the fallback path and the freeform path read it
SeriesPayloads == SeqsUpTo(SeriesObjects, MaxSeries)
SelectorPayloads == SeqsUpTo(SeriesObjects, MaxData)

\* what getTagKeys resolves to
TagKeyPayloads == SeqsUpTo({[text |-> n] : n \in Names}, MaxData)

\* what the backend may hold for the request of dispatch d: families of payloads
BackendData(d) ==
    CASE d.decoder \in {"labelValues", "metricNames", "labelNames"} -> << NameListPayloads >>
      [] d.decoder = "seriesLabelValues" -> << SeriesPayloads >>
      [] d.decoder = "originalMetricNames" -> << SelectorPayloads >>
      [] d.decoder = "queryResult" -> << ScalarPayloads, SampleListPayloads >>
      [] d.decoder = "identity" -> << TagKeyPayloads >>

----------------------------------------------------------------------------
(* The state machine *)

Init ==
    /\ \/ query \in Queries /\ limit = 1
       \/ query \in SampleQueries /\ limit = MaxCalls
    /\ hasLabelsMatchAPISupport \in BOOLEAN
    /\ range = getDefaultTimeRange
    /\ started = 0
    /\ pc = [c \in Calls |-> "idle"]
    /\ timeRange = [c \in Calls |-> getDefaultTimeRange]
    /\ dispatched = [c \in Calls |-> << >>]
    /\ response = [c \in Calls |-> << >>]
    /\ failure = [c \in Calls |-> NoError]
    /\ result = [c \in Calls |-> << >>]
    /\ error = [c \in Calls |-> NoError]
    /\ backend = << >>

\* variant: the failure is caught and rethrown as a new error
OnRejectedWrapped(e) == [name |-> "Error", message |-> "request failed: " \o e.message]

\* a rejection of the collaborator's promise passes through .then(onFulfilled)
OnRejected(e) == e

\* process(timeRange), up to its return
Process(tr) ==
    /\ started < limit
    /\ LET c == started + 1
           ds == process(query, tr, range, hasLabelsMatchAPISupport)
       IN  /\ started' = c
           /\ range' = tr
           /\ timeRange' = [timeRange EXCEPT ![c] = tr]
           /\ dispatched' = [dispatched EXCEPT ![c] = ds]
           /\ pc' = [pc EXCEPT ![c] = IF ds = << >> THEN "resolved" ELSE "pending"]
    /\ UNCHANGED <<query, limit, response, failure, result, error, backend,
                   hasLabelsMatchAPISupport>>

\* the collaborator's promise fulfils and the .then callback of call c runs;
\* the collaborator hands over the payload object it holds or a fresh copy of it
Callback(c) ==
    /\ pc[c] = "pending"
    /\ LET d == dispatched[c][1]
           families == IF backend # << >> THEN << {backend[1]} >> ELSE BackendData(d)
       IN  \E k \in 1..Len(families) : \E payload \in families[k], shared \in BOOLEAN :
              LET r == Decode(d, payload)
              IN  /\ response' = [response EXCEPT ![c] = payload]
                  /\ backend' = << IF shared THEN r.payload ELSE payload >>
                  /\ IF r.ok
                     THEN /\ pc' = [pc EXCEPT ![c] = "resolved"]
                          /\ result' = [result EXCEPT ![c] = r.value]
                          /\ error' = error
                     ELSE /\ pc' = [pc EXCEPT ![c] = "rejected"]
                          /\ error' = [error EXCEPT ![c] = r.error]
                          /\ result' = result
    /\ UNCHANGED <<query, range, limit, started, timeRange, dispatched, failure,
                   hasLabelsMatchAPISupport>>

\* the collaborator's promise rejects (transport failure)
Fail(c) ==
    /\ pc[c] = "pending"
    /\ \E e \in TransportErrors :
          /\ failure' = [failure EXCEPT ![c] = e]
          /\ error' = [error EXCEPT ![c] = OnRejected(e)]
          /\ pc' = [pc EXCEPT ![c] = "rejected"]
    /\ UNCHANGED <<query, range, limit, started, timeRange, dispatched, response,
                   result, backend, hasLabelsMatchAPISupport>>

Next ==
    \/ \E tr \in TimeRanges : Process(tr)
    \/ \E c \in Calls : Callback(c)
    \/ \E c \in Calls : Fail(c)

Spec == Init /\ [][Next]_vars

----------------------------------------------------------------------------
(* Vocabulary of the properties *)

Started == 1..started

\* the .then callback of call c has run on a payload
Decoded(c) ==
    pc[c] \in {"resolved", "rejected"} /\ dispatched[c] # << >> /\ failure[c] = NoError

IsSubstring(sub, s) ==
    \E i \in 1..(Len(s) - Len(sub) + 1) : SubSeq(s, i, i + Len(sub) - 1) = sub

\* the classifier's rules in priority order, and the handler of each
RuleMatches(i, q) ==
    CASE i = 1 -> PrometheusLabelNamesRegexWithMatch(q).ok
      [] i = 2 -> PrometheusLabelNamesRegex(q).ok
      [] i = 3 -> labelValuesRegex(q).ok
      [] i = 4 -> PrometheusMetricNamesRegex(q).ok
      [] i = 5 -> PrometheusQueryResultRegex(q).ok
      [] i = 6 -> q \notin {"label_values()", "metrics()", "query_result()"}

HandlerOfRule(i) ==
    CASE i = 1 -> "getSeriesLabels"
      [] i = 2 -> "getTagKeys"
      [] i = 3 -> "labelValuesQuery"
      [] i = 4 -> "metricNameQuery"
      [] i = 5 -> "queryResultQuery"
      [] i = 6 -> "metricNameAndLabelsQuery"

MatchingRules(q) == {i \in 1..6 : RuleMatches(i, q)}
FirstRule(q) == CHOOSE i \in MatchingRules(q) : \A j \in MatchingRules(q) : i <= j

----------------------------------------------------------------------------
(* C1: every process call invokes exactly the handler of the first rule, in  *)
(* priority order, that matches the query, and no handler of a later rule;   *)
(* when no rule matches it invokes none.                                     *)
C1_FirstMatchWins ==
    started > 0 =>
        LET rules == MatchingRules(query)
            first == CHOOSE i \in rules : \A j \in rules : i <= j
        IN  \A c \in Started :
                IF rules = {}
                THEN dispatched[c] = << >>
                ELSE /\ Len(dispatched[c]) = 1
                     /\ dispatched[c][1].handler = HandlerOfRule(first)

\* a call whose query matches an early rule and the freeform rule as well
C1_Witness ==
    \E c \in Started :
        /\ Cardinality(MatchingRules(query)) >= 2
        /\ FirstRule(query) = 1
        /\ dispatched[c][1].handler = "getSeriesLabels"

(* C2: a reserved bare form resolves to the empty sequence with no           *)
(* collaborator call; any other query matching none of rules 1-5 is sent     *)
(* whole as match[] to /api/v1/series.                                       *)
C2_ReservedOrFreeform ==
    \A c \in Started :
        /\ query \in {"label_values()", "metrics()", "query_result()"} =>
              /\ dispatched[c] = << >>
              /\ pc[c] = "resolved"
              /\ result[c] = << >>
        /\ (MatchingRules(query) \cap (1..5) = {}
              /\ query \notin {"label_values()", "metrics()", "query_result()"}) =>
              /\ Len(dispatched[c]) = 1
              /\ dispatched[c][1].request.fn = "metadataRequest"
              /\ dispatched[c][1].request.url = "/api/v1/series"
              /\ HasParam(dispatched[c][1].request.params, "match[]")
              /\ Param(dispatched[c][1].request.params, "match[]") = query

\* a reserved bare form has been resolved
C2_Witness ==
    \E c \in Started :
        query = "query_result()" /\ pc[c] = "resolved" /\ dispatched[c] = << >>

(* C3: a label_values query requests /api/v1/label/{label}/values exactly    *)
(* when no metric is given or the capability flag is true, /api/v1/series    *)
(* exactly when a metric is given and the flag is false; match[] is present, *)
(* equal to the metric, iff a metric is given; start and end are present.    *)
C3_LabelValuesRequest ==
    \A c \in Started :
        labelValuesRegex(query).ok =>
            LET label == labelValuesRegex(query).g2
                metric == labelValuesRegex(query).g1
                req == dispatched[c][1].request
                labelUrl == "/api/v1/label/" \o label \o "/values"
            IN  /\ Len(dispatched[c]) = 1
                /\ req.fn = "metadataRequest"
                /\ req.url = labelUrl <=> (metric = "" \/ hasLabelsMatchAPISupport)
                /\ req.url = "/api/v1/series" <=> (metric # "" /\ ~hasLabelsMatchAPISupport)
                /\ HasParam(req.params, "match[]") <=> metric # ""
                /\ metric # "" => Param(req.params, "match[]") = metric
                /\ HasParam(req.params, "start") /\ HasParam(req.params, "end")

\* both sides of the branch: a metric with the capability missing
C3_Witness ==
    \E c \in Started :
        /\ labelValuesRegex(query).ok
        /\ labelValuesRegex(query).g1 = "up"
        /\ ~hasLabelsMatchAPISupport
        /\ dispatched[c][1].request.url = "/api/v1/series"

(* C4: a query_result whose payload reports a resultType other than scalar,  *)
(* string or vector rejects with an error whose message contains the type    *)
(* name, and resolves to no items.                                           *)
C4_UnknownResultTypeRejects ==
    \A c \in Started :
        (/\ Decoded(c)
         /\ dispatched[c][1].decoder = "queryResult"
         /\ response[c].resultType \notin {"scalar", "string", "vector"}) =>
            /\ pc[c] = "rejected"
            /\ IsSubstring(response[c].resultType, error[c].message)
            /\ result[c] = << >>

C4_Witness ==
    \E c \in Started :
        /\ Decoded(c)
        /\ dispatched[c][1].decoder = "queryResult"
        /\ response[c].resultType = "matrix"
        /\ pc[c] = "rejected"

(* C5: whenever the collaborator call succeeded, the returned promise        *)
(* resolves, unless the query is a query_result form whose resultType is     *)
(* not scalar, string or vector.                                             *)
C5_AlwaysResolves ==
    \A c \in Started :
        Decoded(c) =>
            \/ pc[c] = "resolved"
            \/ /\ dispatched[c][1].decoder = "queryResult"
               /\ response[c].resultType \notin {"scalar", "string", "vector"}

(* C6: two process calls with the same query and time range, answered with   *)
(* the same payload, resolve to the same ordered sequence of items.          *)
C6_Idempotent ==
    \A c1, c2 \in Started :
        (/\ pc[c1] = "resolved" /\ pc[c2] = "resolved"
         /\ timeRange[c1] = timeRange[c2]) =>
            result[c1] = result[c2]

\* the whole seconds n with n*1000 <= ms < (n+1)*1000, and with (n-1)*1000 < ms <= n*1000
FloorSeconds(ms) == CHOOSE n \in 0..(ms \div 1000 + 1) : n * 1000 <= ms /\ ms < (n + 1) * 1000
CeilSeconds(ms) == CHOOSE n \in 0..(ms \div 1000 + 1) : (n - 1) * 1000 < ms /\ ms <= n * 1000

\* the request of call c carries the window of the time range tr
CarriesWindowOf(c, tr) ==
    LET params == dispatched[c][1].request.params
    IN  /\ HasParam(params, "start") /\ HasParam(params, "end")
        /\ Param(params, "start") = ToString(FloorSeconds(tr.from))
        /\ Param(params, "end") = ToString(CeilSeconds(tr.to))

WindowHandlers == {"labelValuesQuery", "metricNameQuery", "metricNameAndLabelsQuery"}

C8_SingleRequestNoRetry ==
    \A c \in Started :
        /\ Len(dispatched[c]) <= 1
        /\ failure[c] # NoError =>
              /\ pc[c] = "rejected"
              /\ error[c] = failure[c]
              /\ result[c] = << >>
        /\ (pc[c] = "resolved" /\ dispatched[c] # << >>) => failure[c] = NoError
        /\ pc[c] = "pending" => Len(dispatched[c]) = 1

\* a transport failure has rejected a resolution
C8_Witness ==
    \E c \in Started :
        /\ failure[c] \in TransportErrors
        /\ pc[c] = "rejected"
        /\ error[c] = failure[c]
        /\ Len(dispatched[c]) = 1

(* C9: in every label_values, metrics and freeform request, start is         *)
(* range.from floored and end is range.to ceiled to whole seconds, as        *)
(* strings, so the requested window covers the range.                        *)
C9_WindowCoversRange ==
    \A c \in Started :
        (dispatched[c] # << >> /\ dispatched[c][1].handler \in WindowHandlers) =>
            LET params == dispatched[c][1].request.params
            IN  /\ HasParam(params, "start") /\ HasParam(params, "end")
                /\ \E n \in 0..40 :
                      /\ Param(params, "start") = ToString(n)
                      /\ n * 1000 <= timeRange[c].from /\ timeRange[c].from < (n + 1) * 1000
                /\ \E m \in 0..40 :
                      /\ Param(params, "end") = ToString(m)
                      /\ (m - 1) * 1000 < timeRange[c].to /\ timeRange[c].to <= m * 1000

\* from = 10.9 s, to = 11.1 s gives start = 10, end = 12
C9_Witness ==
    \E c \in Started :
        /\ dispatched[c] # << >>
        /\ dispatched[c][1].handler \in WindowHandlers
        /\ timeRange[c] = [from |-> 10900, to |-> 11100]
        /\ Param(dispatched[c][1].request.params, "start") = "10"
        /\ Param(dispatched[c][1].request.params, "end") = "12"

\* the position of the first series of the payload whose label has the value v
FirstSeriesWith(payload, label, v) ==
    CHOOSE i \in 1..Len(payload) :
        /\ HasKey(payload[i], label) /\ PropOrEmpty(payload[i], label) = v
        /\ \A j \in 1..(i - 1) : ~(HasKey(payload[j], label) /\ PropOrEmpty(payload[j], label) = v)

====
